---- MODULE Spec2Model ----
(***************************************************************************)
(* Facility-reservation backend (Flask + SQLAlchemy): the session /        *)
(* credential lifecycle of db.Users and users_dao, the access gate         *)
(* extract_token, and the reservation endpoints of app.py.                 *)
(*                                                                         *)
(* Strings are sequences of atoms: "Bearer " and " " are the two atoms the *)
(* header parsing looks at, every other atom is an opaque run of token     *)
(* characters.  The empty string is <<>>.                                  *)
(***************************************************************************)
EXTENDS Integers, Sequences, FiniteSets, TLC

\* ---------------------------------------------------------------- bounds
MaxUserId == 2      \* largest users.id the model allots
MaxTokens == 6      \* number of tokens _urlsafe_base_64 hands out
MaxTime == 2        \* last instant of the clock

\* ------------------------------------------------------ program constants
SessionTTL == 1     \* datetime.timedelta(days=1), in clock ticks

Emails == {"a@x", "b@x"}
Passwords == {"pw1", "pw2"}
Names == {"ann"}
NetIds == {"n1"}

VARIABLES users, facilities, reservations, req, now, issued, last, renewed, retired,
          loggedOut, registered, locations

vars == <<users, facilities, reservations, req, now, issued, last, renewed, retired,
          loggedOut, registered, locations>>

\* ---------------------------------------------------------------- strings
EmptyStr == <<>>

BearerAtom == "Bearer "

SpaceAtom == " "

\* the n-th value produced by hashlib.sha1(os.urandom(64)).hexdigest():
\* a fresh 40-digit hex string, distinct from every earlier one
_urlsafe_base_64(n) == <<ToString(n)>>

TokenStrings == {_urlsafe_base_64(n) : n \in 1..MaxTokens}

\* str.replace("Bearer ", ""): every occurrence is removed
Replace(s) == SelectSeq(s, LAMBDA a : a # BearerAtom)

RECURSIVE LStrip(_)
LStrip(s) == IF s # <<>> /\ Head(s) = SpaceAtom THEN LStrip(Tail(s)) ELSE s

RECURSIVE RStrip(_)
RStrip(s) ==
    IF s # <<>> /\ s[Len(s)] = SpaceAtom THEN RStrip(SubSeq(s, 1, Len(s) - 1)) ELSE s

\* str.strip()
Strip(s) == RStrip(LStrip(s))

\* request.headers.get("Authorization"): absent, or a string
NoHeader == [present |-> FALSE, value |-> EmptyStr]

Header(s) == [present |-> TRUE, value |-> s]

HeaderValues ==
    {NoHeader, Header(EmptyStr), Header(<<BearerAtom>>), Header(<<SpaceAtom>>)}
    \cup {Header(<<BearerAtom>> \o t) : t \in TokenStrings}
    \cup {Header(<<SpaceAtom>> \o t \o <<SpaceAtom>>) : t \in TokenStrings}

\* extract_token without the test for an empty remainder
extract_token_keeps_empty(h) ==
    IF ~h.present
    THEN [ok |-> FALSE, token |-> EmptyStr, status |-> 400]
    ELSE [ok |-> TRUE, token |-> Strip(Replace(h.value)), status |-> 200]

\* the pair (success, value) that extract_token returns
extract_token(h) ==
    IF ~h.present
    THEN [ok |-> FALSE, token |-> EmptyStr, status |-> 400]
    ELSE LET bearer_token == Strip(Replace(h.value))
         IN IF bearer_token = EmptyStr
            THEN [ok |-> FALSE, token |-> EmptyStr, status |-> 400]
            ELSE [ok |-> TRUE, token |-> bearer_token, status |-> 200]

\* ------------------------------------------------------------ users table
\* bcrypt.hashpw / bcrypt.checkpw: the digest is not the password, and
\* checkpw accepts exactly the password the digest was made from
Hashpw(password) == <<"$2b$13$", password>>

\* a check that accepts every password
verify_password_any(user, password) == TRUE

\* Users.verify_password: bcrypt.checkpw(password, self.password_digest)
verify_password(user, password) == Hashpw(password) = user.password_digest

Ids == DOMAIN users

MaxOf(S) == CHOOSE m \in S : \A x \in S : x <= m

MinOf(S) == CHOOSE m \in S : \A x \in S : m <= x

\* INTEGER PRIMARY KEY of SQLite: one more than the largest id in the table
NextId(tbl) == IF DOMAIN tbl = {} THEN 1 ELSE MaxOf(DOMAIN tbl) + 1

\* Query.first(): the first matching row, or None (0)
First(S) == IF S = {} THEN 0 ELSE MinOf(S)

get_user_by_email(email) == First({i \in Ids : users[i].email = email})

get_user_by_session_token(session_token) ==
    First({i \in Ids : users[i].session_token = session_token})

\* a lookup by update token that skips users whose session has expired
get_user_by_update_token_unexpired(update_token) ==
    First({i \in Ids : /\ users[i].update_token = update_token
                       /\ now < users[i].session_expiration})

get_user_by_update_token(update_token) ==
    First({i \in Ids : users[i].update_token = update_token})

\* unique=True on email, session_token and update_token
UniqueOK(tbl) ==
    \A i, j \in DOMAIN tbl :
        i # j => /\ tbl[i].email # tbl[j].email
                 /\ tbl[i].session_token # tbl[j].session_token
                 /\ tbl[i].update_token # tbl[j].update_token

\* a renewal that keeps the session token and only moves the expiration
renew_session_fields_same_session(user, n, t) ==
    [user EXCEPT !.session_expiration = t + SessionTTL,
                 !.update_token = _urlsafe_base_64(n + 2)]

\* Users.renew_session: the three session fields after a renewal that draws
\* the tokens n+1 and n+2 at instant t
renew_session_fields(user, n, t) ==
    [user EXCEPT !.session_token = _urlsafe_base_64(n + 1),
                 !.session_expiration = t + SessionTTL,
                 !.update_token = _urlsafe_base_64(n + 2)]

\* verification that still accepts the token at the instant of expiration
verify_session_token_at_expiry(user, session_token, t) ==
    session_token = user.session_token /\ t <= user.session_expiration

\* Users.verify_session_token
verify_session_token(user, session_token, t) ==
    session_token = user.session_token /\ t < user.session_expiration

\* Users.__init__
NewUser(name, netid, email, password, n, t) ==
    renew_session_fields(
        [name |-> name, netid |-> netid, email |-> email,
         password_digest |-> Hashpw(password),
         session_token |-> EmptyStr, session_expiration |-> 0,
         update_token |-> EmptyStr], n, t)

\* ------------------------------------------------ reservation requests
\* the two requests that run side by side in SpecRace
Procs == {1, 2}

IdleReq == [pc |-> "idle", facility_id |-> 0, user_id |-> 0, start_time |-> 0,
            end_time |-> 0, result |-> "none"]

\* --------------------------------------------------------------- requests
Resp(op, status) == [op |-> op, status |-> status]

Init ==
    /\ users = <<>>
    /\ facilities = <<>>
    /\ reservations = {}
    /\ req = [p \in Procs |-> IdleReq]
    /\ now = 0
    /\ issued = 0
    /\ last = Resp("start", 0)
    /\ renewed = {}
    /\ retired = {}
    /\ loggedOut = {}
    /\ registered = {}
    /\ locations = <<>>

\* datetime.datetime.now() moves on between requests
Tick ==
    /\ now < MaxTime
    /\ now' = now + 1
    /\ last' = Resp("tick", 0)
    /\ UNCHANGED <<registered, locations, users, facilities, reservations, req, issued, renewed, retired, loggedOut>>

\* a JSON body field that is absent: body.get(...) is None
NoneVal == "<None>"

\* a commit against columns declared without unique=True
Commit_unchecked(tbl) == tbl

\* db.session.commit(): the UNIQUE constraints decide whether the new table
\* is stored; an IntegrityError leaves the table as it was
Commit(tbl) == IF UniqueOK(tbl) THEN tbl ELSE users

\* create_user without the lookup by email: the row of that email is replaced
create_user_overwrite(name, netid, email, password) ==
    LET held == get_user_by_email(email)
        id == IF held # 0 THEN held ELSE NextId(users)
        user == NewUser(name, netid, email, password, issued, now)
    IN [success |-> TRUE, id |-> id,
        tbl |-> [i \in Ids \cup {id} |-> IF i = id THEN user ELSE users[i]]]

\* users_dao.create_user
create_user(name, netid, email, password) ==
    IF get_user_by_email(email) # 0
    THEN [success |-> FALSE, id |-> get_user_by_email(email), tbl |-> users]
    ELSE LET id == NextId(users)
             user == NewUser(name, netid, email, password, issued, now)
         IN [success |-> TRUE, id |-> id,
             tbl |-> [i \in Ids \cup {id} |-> IF i = id THEN user ELSE users[i]]]

\* POST /register/
register_account(name, netid, email, password) ==
    IF NoneVal \in {name, netid, email, password}
    THEN /\ last' = [op |-> "register", status |-> 400, user |-> 0, email |-> email]
         /\ UNCHANGED <<registered, locations, users, facilities, reservations, req, now, issued, renewed, retired, loggedOut>>
    ELSE LET r == create_user(name, netid, email, password)
         IN IF ~r.success
            THEN /\ last' = [op |-> "register", status |-> 400, user |-> 0,
                             email |-> email]
                 /\ UNCHANGED <<registered, locations, users, facilities, reservations, req, now, issued, renewed, retired,
                                loggedOut>>
            ELSE /\ r.id <= MaxUserId
                 /\ issued + 2 <= MaxTokens
                 /\ users' = Commit(r.tbl)
                 /\ issued' = issued + 2
                 /\ registered' = registered \cup {<<r.id, email, password>>}
                 /\ last' = [op |-> "register", status |-> 200, user |-> r.id,
                             email |-> email]
                 /\ UNCHANGED <<locations, facilities, reservations, req, now, renewed, retired, loggedOut>>

\* users_dao.verify_credentials
verify_credentials(email, password) ==
    LET optional_user == get_user_by_email(email)
    IN IF optional_user = 0
       THEN [success |-> FALSE, id |-> 0]
       ELSE [success |-> verify_password(users[optional_user], password),
             id |-> optional_user]

\* a login that extends the session of the user it authenticates
login_extending(email, password) ==
    LET r == IF NoneVal \in {email, password}
             THEN [success |-> FALSE, id |-> 0]
             ELSE verify_credentials(email, password)
    IN /\ users' = IF r.success
                   THEN [users EXCEPT ![r.id].session_expiration = now + SessionTTL]
                   ELSE users
       /\ last' = IF NoneVal \in {email, password}
                  THEN [op |-> "login", status |-> 400, user |-> 0,
                        session_token |-> EmptyStr, update_token |-> EmptyStr,
                        email |-> email, password |-> password]
                  ELSE IF ~r.success
                  THEN [op |-> "login", status |-> 401, user |-> 0,
                        session_token |-> EmptyStr, update_token |-> EmptyStr,
                        email |-> email, password |-> password]
                  ELSE [op |-> "login", status |-> 200, user |-> r.id,
                        session_token |-> users[r.id].session_token,
                        update_token |-> users[r.id].update_token,
                        email |-> email, password |-> password]
       /\ UNCHANGED <<registered, locations, facilities, reservations, req, now, issued,
                      renewed, retired, loggedOut>>

\* POST /login/
login(email, password) ==
    /\ last' = IF NoneVal \in {email, password}
               THEN [op |-> "login", status |-> 400, user |-> 0,
                     session_token |-> EmptyStr, update_token |-> EmptyStr,
                     email |-> email, password |-> password]
               ELSE LET r == verify_credentials(email, password)
                    IN IF ~r.success
                       THEN [op |-> "login", status |-> 401, user |-> 0,
                             session_token |-> EmptyStr, update_token |-> EmptyStr,
                     email |-> email, password |-> password]
                       ELSE [op |-> "login", status |-> 200, user |-> r.id,
                             session_token |-> users[r.id].session_token,
                             update_token |-> users[r.id].update_token,
                             email |-> email, password |-> password]
    /\ UNCHANGED <<registered, locations, users, facilities, reservations, req, now, issued, renewed, retired, loggedOut>>

\* POST /session/  (users_dao.renew_session behind extract_token)
update_session(h) ==
    LET e == extract_token(h)
        optional_user == get_user_by_update_token(e.token)
    IN IF ~e.ok
       THEN /\ last' = [op |-> "session", status |-> 400, user |-> 0,
                        reuse |-> e.token \in renewed]
            /\ UNCHANGED <<registered, locations, users, facilities, reservations, req, now, issued, renewed, retired,
                           loggedOut>>
       ELSE IF optional_user = 0
       THEN /\ last' = [op |-> "session", status |-> 400, user |-> 0,
                        reuse |-> e.token \in renewed]
            /\ UNCHANGED <<registered, locations, users, facilities, reservations, req, now, issued, renewed, retired,
                           loggedOut>>
       ELSE /\ issued + 2 <= MaxTokens
            /\ users' = Commit([users EXCEPT ![optional_user] =
                                   renew_session_fields(@, issued, now)])
            /\ issued' = issued + 2
            /\ renewed' = renewed \cup {e.token}
            /\ retired' = retired
                            \cup {<<optional_user, users[optional_user].session_token>>}
            /\ last' = [op |-> "session", status |-> 200, user |-> optional_user,
                        reuse |-> e.token \in renewed]
            /\ UNCHANGED <<registered, locations, facilities, reservations, req, now, loggedOut>>

\* GET /secret/
secret_message(h) ==
    LET e == extract_token(h)
        user == get_user_by_session_token(e.token)
    IN /\ last' = IF ~e.ok
                  THEN [op |-> "secret", status |-> 400, user |-> 0]
                  ELSE IF user = 0 \/ ~verify_session_token(users[user], e.token, now)
                  THEN [op |-> "secret", status |-> 400, user |-> 0]
                  ELSE [op |-> "secret", status |-> 200, user |-> user]
       /\ UNCHANGED <<registered, locations, users, facilities, reservations, req, now, issued, renewed, retired, loggedOut>>

\* a logout that clears the session token and keeps the update token
logout_fields_keep_update(user, t) ==
    [user EXCEPT !.session_token = EmptyStr,
                 !.session_expiration = t]

\* the fields POST /logout/ assigns before it commits
logout_fields(user, t) ==
    [user EXCEPT !.session_token = EmptyStr,
                 !.session_expiration = t,
                 !.update_token = EmptyStr]

\* POST /logout/
logout(h) ==
    LET e == extract_token(h)
        user == get_user_by_session_token(e.token)
    IN IF ~e.ok
       THEN /\ last' = [op |-> "logout", status |-> 400, user |-> 0]
            /\ UNCHANGED <<registered, locations, users, facilities, reservations, req, now, issued, renewed, retired,
                           loggedOut>>
       ELSE IF user = 0 \/ ~verify_session_token(users[user], e.token, now)
       THEN /\ last' = [op |-> "logout", status |-> 400, user |-> 0]
            /\ UNCHANGED <<registered, locations, users, facilities, reservations, req, now, issued, renewed, retired,
                           loggedOut>>
       ELSE LET tbl == [users EXCEPT ![user] = logout_fields(@, now)]
            IN /\ users' = Commit(tbl)
               /\ last' = [op |-> "logout",
                           status |-> IF UniqueOK(tbl) THEN 200 ELSE 500,
                           user |-> user]
               /\ loggedOut' = IF UniqueOK(tbl)
                               THEN loggedOut \cup {<<user, e.token>>}
                               ELSE loggedOut
               /\ UNCHANGED <<registered, locations, facilities, reservations, req, now, issued, renewed, retired>>

\* DELETE /api/users/<id>/
delete_user(id) ==
    IF id \notin Ids
    THEN /\ last' = [op |-> "delete_user", status |-> 404, user |-> 0]
         /\ UNCHANGED <<registered, locations, users, facilities, reservations, req, now, issued, renewed, retired, loggedOut>>
    ELSE /\ users' = [i \in Ids \ {id} |-> users[i]]
         /\ retired' = {p \in retired : p[1] # id}
         /\ loggedOut' = {p \in loggedOut : p[1] # id}
         /\ registered' = {p \in registered : p[1] # id}
         /\ last' = [op |-> "delete_user", status |-> 200, user |-> id]
         /\ UNCHANGED <<locations, facilities, reservations, req, now, issued, renewed>>

\* Users.verify_session_token called on a stored user with any token string
verify_call(id, session_token) ==
    /\ id \in Ids
    /\ last' = [op |-> "verify", status |-> 0, user |-> id, token |-> session_token,
                result |-> verify_session_token(users[id], session_token, now)]
    /\ UNCHANGED <<registered, locations, users, facilities, reservations, req, now, issued, renewed, retired, loggedOut>>

\* ------------------------------------------------------------ reservations
MaxSlot == 3            \* booking instants are 0..MaxSlot
MaxReservationId == 2   \* largest reservations.id the model allots
MaxFacilityId == 1      \* largest facilities.id the model allots

LocationIds == {1, 2}
FacilityIds == {1, 2}
Slots == 0..MaxSlot

\* Reservation.query.filter_by(facility_id=facility_id)
ReservationsOf(facility_id) == {r \in reservations : r.facility_id = facility_id}

\* the loop without its second test (end_time inside another reservation)
RECURSIVE Scan_start_only(_, _, _)
Scan_start_only(rows, start_time, end_time) ==
    IF rows = {}
    THEN "none"
    ELSE LET reservation == CHOOSE r \in rows : \A x \in rows : r.id <= x.id
         IN IF reservation.start_time < start_time /\ reservation.end_time > start_time
            THEN "start"
            ELSE Scan_start_only(rows \ {reservation}, start_time, end_time)

\* the loop of add_reservation over the rows of one facility, in id order:
\* the first row whose interior holds start_time or end_time ends the request
RECURSIVE Scan(_, _, _)
Scan(rows, start_time, end_time) ==
    IF rows = {}
    THEN "none"
    ELSE LET reservation == CHOOSE r \in rows : \A x \in rows : r.id <= x.id
         IN IF reservation.start_time < start_time /\ reservation.end_time > start_time
            THEN "start"
            ELSE IF reservation.start_time < end_time /\ reservation.end_time > end_time
            THEN "end"
            ELSE Scan(rows \ {reservation}, start_time, end_time)

NextReservationId ==
    IF reservations = {} THEN 1 ELSE MaxOf({r.id : r \in reservations}) + 1

\* Reservation(user_id=..., facility_id=..., start_time=..., end_time=...)
\* after db.session.add and db.session.commit
Reserve(user_id, facility_id, start_time, end_time) ==
    [id |-> NextReservationId, user_id |-> user_id, facility_id |-> facility_id,
     start_time |-> start_time, end_time |-> end_time]

\* datetime.strptime(text, fmt): `datetime` is the module bound by
\* `import datetime`, it has no attribute strptime, the call raises
\* AttributeError whatever the text is
strptime(text) == [raised |-> TRUE, value |-> text]

\* facility.id, where facility is the Query that filter_by returned (it is
\* never .first()ed): a Query has no attribute id, AttributeError
QueryId(facility_id) == [raised |-> TRUE, value |-> facility_id]

\* user.session_token == extract_token(request): a str compared with the
\* pair extract_token returns; == between str and tuple is False
StrEqPair(session_token, pair) == FALSE

\* Users.query.filter_by(netid=netid).first()
get_user_by_netid(netid) == First({i \in Ids : users[i].netid = netid})

\* does the header carry the live session token of this stored user
Authorized(id, h) ==
    /\ id \in Ids
    /\ extract_token(h).ok
    /\ verify_session_token(users[id], extract_token(h).token, now)

\* Facility.query.filter_by(id=facility_id, location_id=location_id): the
\* Query, here the rows it would select
FacilityQuery(facility_id, location_id) ==
    {f \in DOMAIN facilities :
        f = facility_id /\ facilities[f].location_id = location_id}

\* `facility is None`: facility is the Query object itself (no .first()),
\* and an object is never None, whatever rows it selects
QueryIsNone(query) == FALSE

\* POST /api/locations/<location_id>/facilities/<facility_id>/add/
add_reservation_outcome(location_id, facility_id, netid, start_text, end_text, h) ==
    LET start_time == strptime(start_text)
        end_time == strptime(end_text)
        user == get_user_by_netid(netid)
    IN IF QueryIsNone(FacilityQuery(facility_id, location_id))
       THEN [status |-> 404, kind |-> "Facility not found", store |-> reservations]
       ELSE IF start_time.raised \/ end_time.raised
       THEN [status |-> 500, kind |-> "AttributeError", store |-> reservations]
       ELSE IF user = 0
       THEN [status |-> 404, kind |-> "Invalid netid", store |-> reservations]
       ELSE IF ~StrEqPair(users[user].session_token, extract_token(h))
       THEN [status |-> 404, kind |-> "Authentication error", store |-> reservations]
       ELSE IF Scan(ReservationsOf(facility_id), start_time.value, end_time.value)
                 # "none"
       THEN [status |-> 404, kind |-> "Conflict", store |-> reservations]
       ELSE IF QueryId(facility_id).raised
       THEN [status |-> 500, kind |-> "AttributeError", store |-> reservations]
       ELSE [status |-> 200, kind |-> "ok",
             store |-> reservations
                         \cup {Reserve(user, QueryId(facility_id).value,
                                       start_time.value, end_time.value)}]

add_reservation(location_id, facility_id, netid, start_text, end_text, h) ==
    LET out == add_reservation_outcome(location_id, facility_id, netid, start_text,
                                       end_text, h)
        user == get_user_by_netid(netid)
    IN /\ reservations' = out.store
       /\ last' = [op |-> "add_reservation", status |-> out.status, kind |-> out.kind,
                   authorized |-> Authorized(user, h),
                   facility |-> FacilityQuery(facility_id, location_id) # {},
                   valid |-> start_text < end_text,
                   disjoint |-> ~\E r \in ReservationsOf(facility_id) :
                                    r.start_time < end_text /\ start_text < r.end_time,
                   stored |-> out.store # reservations]
       /\ UNCHANGED <<registered, locations, users, facilities, req, now, issued, renewed, retired, loggedOut>>

\* a cancel that accepts the live session token of any stored user
cancel_reservation_outcome_any_user(reservation_id, h) ==
    LET found == {r \in reservations : r.id = reservation_id}
    IN IF found = {}
       THEN [status |-> 500, kind |-> "AttributeError", store |-> reservations]
       ELSE IF \E i \in Ids : Authorized(i, h)
            THEN [status |-> 200, kind |-> "ok", store |-> reservations \ found]
            ELSE [status |-> 404, kind |-> "Authentication error",
                  store |-> reservations]

\* DELETE /api/reservations/<reservation_id>/cancel/
\* reserve.user_id is read before the None test: a missing row ends the
\* request with AttributeError
cancel_reservation_outcome(reservation_id, h) ==
    LET found == {r \in reservations : r.id = reservation_id}
    IN IF found = {}
       THEN [status |-> 500, kind |-> "AttributeError", store |-> reservations]
       ELSE LET reserve == CHOOSE r \in found : TRUE
            IN IF reserve.user_id \notin Ids
               THEN [status |-> 500, kind |-> "AttributeError", store |-> reservations]
               ELSE IF StrEqPair(users[reserve.user_id].session_token, extract_token(h))
               THEN [status |-> 200, kind |-> "ok", store |-> reservations \ {reserve}]
               ELSE [status |-> 404, kind |-> "Authentication error",
                     store |-> reservations]

cancel_reservation(reservation_id, h) ==
    LET out == cancel_reservation_outcome(reservation_id, h)
    IN /\ reservations' = out.store
       /\ last' = [op |-> "cancel_reservation", status |-> out.status,
                   kind |-> out.kind,
                   found |-> \E r \in reservations : r.id = reservation_id,
                   authorized |-> \E r \in reservations :
                                     r.id = reservation_id /\ Authorized(r.user_id, h),
                   other |-> \E r \in reservations, i \in Ids :
                                /\ r.id = reservation_id
                                /\ i # r.user_id
                                /\ Authorized(i, h),
                   stored |-> out.store # reservations]
       /\ UNCHANGED <<registered, locations, users, facilities, req, now, issued, renewed, retired, loggedOut>>

\* POST /api/locations/<location_id>/facilities/
create_facility(location_id, name) ==
    IF name = NoneVal
    THEN /\ last' = [op |-> "create_facility", status |-> 200, kind |-> "Missing name"]
         /\ UNCHANGED <<registered, locations, users, facilities, reservations, req, now, issued, renewed,
                        retired, loggedOut>>
    ELSE LET id == NextId(facilities)
         IN /\ id <= MaxFacilityId
            /\ facilities' = [f \in DOMAIN facilities \cup {id} |->
                                 IF f = id
                                 THEN [name |-> name, location_id |-> location_id]
                                 ELSE facilities[f]]
            /\ last' = [op |-> "create_facility", status |-> 200, kind |-> "ok"]
            /\ UNCHANGED <<registered, locations, users, reservations, req, now, issued, renewed, retired,
                           loggedOut>>

Field(S) == S \cup {NoneVal}

Next ==
    \/ Tick
    \/ \E name \in Field(Names), netid \in Field(NetIds), email \in Field(Emails),
          password \in Field(Passwords) : register_account(name, netid, email, password)
    \/ \E email \in Field(Emails), password \in Field(Passwords) : login(email, password)
    \/ \E h \in HeaderValues : update_session(h)
    \/ \E h \in HeaderValues : secret_message(h)
    \/ \E h \in HeaderValues : logout(h)
    \/ \E id \in 1..MaxUserId : delete_user(id)
    \/ \E id \in 1..MaxUserId, t \in TokenStrings \cup {EmptyStr} : verify_call(id, t)

Spec == Init /\ [][Next]_vars

\* ------------------------------------------- the reservation endpoints
\* the start_time / end_time texts a request body carries
BodySlots == {1, 2}

NextApp ==
    \/ Tick
    \/ \E name \in Field(Names), netid \in Field(NetIds), email \in Field(Emails),
          password \in Field(Passwords) : register_account(name, netid, email, password)
    \/ \E h \in HeaderValues : logout(h)
    \/ \E location_id \in LocationIds, name \in Field(Names) :
          create_facility(location_id, name)
    \/ \E location_id \in LocationIds, facility_id \in FacilityIds, netid \in NetIds,
          start_text \in BodySlots, end_text \in BodySlots, h \in HeaderValues :
          add_reservation(location_id, facility_id, netid, start_text, end_text, h)
    \/ \E reservation_id \in 1..MaxReservationId, h \in HeaderValues :
          cancel_reservation(reservation_id, h)

SpecApp == Init /\ [][NextApp]_vars

\* ----------------------------------------------- the overlap checker
\* The statements of add_reservation that scan a facility's reservations and
\* insert the new one (the loop, Reservation(...), add, commit), and the
\* delete of cancel_reservation, taken as the operations createReservation
\* and cancelReservation on already parsed arguments and a resolved facility
\* row.  The endpoints above never get this far.
CheckerUsers == {1}

\* an earlier reservation of the facility holds start_time or end_time in its
\* interior
Interior(facility_id, start_time, end_time) ==
    \E r \in ReservationsOf(facility_id) :
        \/ r.start_time < start_time /\ start_time < r.end_time
        \/ r.start_time < end_time /\ end_time < r.end_time

\* half-open intervals [s1, e1) and [s2, e2) share a point
Overlap(s1, e1, s2, e2) == s1 < e2 /\ s2 < e1

\* the new interval shares a point with an earlier one of the facility
Overlapping(facility_id, start_time, end_time) ==
    \E r \in ReservationsOf(facility_id) :
        Overlap(r.start_time, r.end_time, start_time, end_time)

createReservation(facility_id, user_id, start_time, end_time) ==
    LET outcome == Scan(ReservationsOf(facility_id), start_time, end_time)
        flags == [interior |-> Interior(facility_id, start_time, end_time),
                  overlapping |-> Overlapping(facility_id, start_time, end_time),
                  valid |-> start_time < end_time]
    IN IF outcome # "none"
       THEN /\ last' = [op |-> "createReservation", status |-> 404,
                        kind |-> "Conflict", id |-> 0] @@ flags
            /\ UNCHANGED <<registered, locations, users, facilities, reservations, req, now, issued, renewed,
                           retired, loggedOut>>
       ELSE /\ NextReservationId <= MaxReservationId
            /\ reservations' = reservations
                                 \cup {Reserve(user_id, facility_id, start_time,
                                               end_time)}
            /\ last' = [op |-> "createReservation", status |-> 200, kind |-> "ok",
                        id |-> NextReservationId] @@ flags
            /\ UNCHANGED <<registered, locations, users, facilities, req, now, issued, renewed, retired,
                           loggedOut>>

\* db.session.delete(reserve); db.session.commit()
cancelReservation(reservation_id) ==
    /\ \E r \in reservations : r.id = reservation_id
    /\ reservations' = {r \in reservations : r.id # reservation_id}
    /\ last' = [op |-> "cancelReservation", status |-> 200, kind |-> "ok",
                id |-> reservation_id]
    /\ UNCHANGED <<registered, locations, users, facilities, req, now, issued, renewed, retired, loggedOut>>

NextChecker ==
    \/ \E facility_id \in FacilityIds, user_id \in CheckerUsers, start_time \in Slots,
          end_time \in Slots :
          createReservation(facility_id, user_id, start_time, end_time)
    \/ \E reservation_id \in 1..MaxReservationId : cancelReservation(reservation_id)

SpecChecker == Init /\ [][NextChecker]_vars

\* ------------------------------------- two create requests side by side
\* a request arrives: its arguments are fixed
Begin(p, facility_id, user_id, start_time, end_time) ==
    /\ req[p].pc = "idle"
    /\ req' = [req EXCEPT ![p] = [pc |-> "scan", facility_id |-> facility_id,
                                  user_id |-> user_id, start_time |-> start_time,
                                  end_time |-> end_time, result |-> "none"]]
    /\ UNCHANGED <<registered, locations, users, facilities, reservations, now, issued, last, renewed, retired,
                   loggedOut>>

\* the read: the query of the for loop runs and the loop decides
ScanStep(p) ==
    /\ req[p].pc = "scan"
    /\ LET outcome == Scan(ReservationsOf(req[p].facility_id), req[p].start_time,
                           req[p].end_time)
       IN req' = [req EXCEPT ![p].pc = IF outcome = "none" THEN "insert" ELSE "done",
                             ![p].result = IF outcome = "none" THEN "none"
                                           ELSE "Conflict"]
    /\ UNCHANGED <<registered, locations, users, facilities, reservations, now, issued, last, renewed, retired,
                   loggedOut>>

\* the write: db.session.add(reserve); db.session.commit()
InsertStep(p) ==
    /\ req[p].pc = "insert"
    /\ reservations' = reservations
                         \cup {Reserve(req[p].user_id, req[p].facility_id,
                                       req[p].start_time, req[p].end_time)}
    /\ req' = [req EXCEPT ![p].pc = "done", ![p].result = "ok"]
    /\ UNCHANGED <<registered, locations, users, facilities, now, issued, last, renewed, retired, loggedOut>>

NextRace ==
    \/ \E p \in Procs, facility_id \in FacilityIds, user_id \in CheckerUsers,
          start_time \in Slots, end_time \in Slots :
          Begin(p, facility_id, user_id, start_time, end_time)
    \/ \E p \in Procs : ScanStep(p)
    \/ \E p \in Procs : InsertStep(p)

SpecRace == Init /\ [][NextRace]_vars

\* ------------------- cancel requests against reservations that are stored
\* (rows written by the insert of add_reservation, owned by stored users; a
\* user that owns a reservation stays stored, the delete of such a user fails
\* on reservations.user_id NOT NULL)
\* the Authorization headers of the cancel requests: none, or "Bearer <token>"
BearerHeaders == {NoHeader} \cup {Header(<<BearerAtom>> \o t) : t \in TokenStrings}

NextCancel ==
    \/ Tick
    \/ \E name \in Names, netid \in NetIds, email \in Emails, password \in {"pw1"} :
          register_account(name, netid, email, password)
    \/ \E facility_id \in {MaxFacilityId}, user_id \in Ids, start_time \in BodySlots,
          end_time \in {MaxSlot} :
          createReservation(facility_id, user_id, start_time, end_time)
    \/ \E reservation_id \in 1..MaxReservationId, h \in BearerHeaders :
          cancel_reservation(reservation_id, h)

SpecCancel == Init /\ [][NextCancel]_vars

\* ---------------------------------------------------------------- locations
MaxLocationId == 2      \* largest locations.id the model allots

Codes == {"c1", "c2"}
LocationNames == {"gym", "pool"}
Addresses == {"addr"}
WeekdayStarts == {"08", "09"}
WeekdayEnds == {"20"}
WeekendStarts == {"10"}
WeekendEnds == {"18"}

\* json.loads(request.data): a key the request leaves out reads as None
Bodies ==
    [code : Field(Codes), name : Field(LocationNames), address : Field(Addresses),
     weekday_operating_start : Field(WeekdayStarts),
     weekday_operating_end : Field(WeekdayEnds),
     weekend_operating_start : Field(WeekendStarts),
     weekend_operating_end : Field(WeekendEnds)]

\* body.get(key)
Get(body, key) == body[key]

\* the local variables of create_location after its seven body.get calls,
\* each read from the key the code names
create_location_fields(body) ==
    [code |-> Get(body, "code"),
     name |-> Get(body, "name"),
     address |-> Get(body, "name"),
     weekday_operating_start |-> Get(body, "weekday_operating_start"),
     weekday_operating_end |-> Get(body, "weekday_operating_start"),
     weekend_operating_start |-> Get(body, "weekday_operating_start"),
     weekend_operating_end |-> Get(body, "weekday_operating_start")]

\* the seven `is None` tests in order, each on the variable the code tests;
\* "" when none of them returns
create_location_missing(v) ==
    IF v.code = NoneVal THEN "No code"
    ELSE IF v.name = NoneVal THEN "No name"
    ELSE IF v.address = NoneVal THEN "No address"
    ELSE IF v.weekday_operating_start = NoneVal THEN "No weekday operating time start"
    ELSE IF v.weekday_operating_end = NoneVal THEN "No weekday operating time end"
    ELSE IF v.weekday_operating_start = NoneVal THEN "No weekend operating time start"
    ELSE IF v.weekday_operating_end = NoneVal THEN "No weekend operating time end"
    ELSE ""

\* Location(code=..., ..., weekend_operating_end=weekday_operating_end)
Location(v) ==
    [code |-> v.code, name |-> v.name, address |-> v.address,
     weekday_operating_start |-> v.weekday_operating_start,
     weekday_operating_end |-> v.weekday_operating_end,
     weekend_operating_start |-> v.weekend_operating_start,
     weekend_operating_end |-> v.weekday_operating_end]

\* POST /api/locations/
create_location(body) ==
    LET v == create_location_fields(body)
        missing == \E key \in DOMAIN body : body[key] = NoneVal
    IN IF create_location_missing(v) # ""
       THEN /\ last' = [op |-> "create_location", status |-> 400, missing |-> missing,
                        stored |-> FALSE, exact |-> FALSE]
            /\ UNCHANGED <<registered, locations, users, facilities, reservations, req,
                           now, issued, renewed, retired, loggedOut>>
       ELSE LET id == NextId(locations)
            IN /\ id <= MaxLocationId
               /\ locations' = [l \in DOMAIN locations \cup {id} |->
                                   IF l = id THEN Location(v) ELSE locations[l]]
               /\ last' = [op |-> "create_location", status |-> 201,
                           missing |-> missing, stored |-> TRUE,
                           exact |-> Location(v) = body]
               /\ UNCHANGED <<registered, users, facilities, reservations, req, now,
                              issued, renewed, retired, loggedOut>>

\* DELETE /api/locations/<id>/
delete_location(id) ==
    IF id \notin DOMAIN locations
    THEN /\ last' = [op |-> "delete_location", status |-> 404]
         /\ UNCHANGED <<registered, locations, users, facilities, reservations, req,
                        now, issued, renewed, retired, loggedOut>>
    ELSE /\ locations' = [l \in DOMAIN locations \ {id} |-> locations[l]]
         /\ last' = [op |-> "delete_location", status |-> 200]
         /\ UNCHANGED <<registered, users, facilities, reservations, req, now, issued,
                        renewed, retired, loggedOut>>

NextLocation ==
    \/ \E body \in Bodies : create_location(body)
    \/ \E id \in 1..MaxLocationId : delete_location(id)

SpecLocation == Init /\ [][NextLocation]_vars

\* ------------------------------- a renewal, statement by statement
\* optional_user = get_user_by_update_token(update_token): the request now
\* holds its own copy of the row
RenewLookup(p, h) ==
    /\ req[p].pc = "idle"
    /\ LET e == extract_token(h)
           optional_user == get_user_by_update_token(e.token)
       IN IF ~e.ok \/ optional_user = 0
          THEN /\ last' = [op |-> "session", status |-> 400, user |-> 0,
                           reuse |-> e.token \in renewed]
               /\ UNCHANGED req
          ELSE /\ req' = [req EXCEPT ![p] = [pc |-> "loaded", user |-> optional_user,
                                             obj |-> users[optional_user],
                                             token |-> e.token]]
               /\ last' = Resp("step", 0)
    /\ UNCHANGED <<registered, locations, users, facilities, reservations, now, issued,
                   renewed, retired, loggedOut>>

\* an attribute assignment on the loaded object with write-through to the table
AssignEffect_writethrough(tbl, id, obj) ==
    IF id \in DOMAIN tbl THEN [tbl EXCEPT ![id] = obj] ELSE tbl

\* what an attribute assignment on the loaded object does to the table:
\* nothing, the change waits in the request's session for the commit
AssignEffect(tbl, id, obj) == tbl

\* self.session_token = self._urlsafe_base_64()
RenewSessionToken(p) ==
    /\ req[p].pc = "loaded"
    /\ issued + 1 <= MaxTokens
    /\ LET obj == [req[p].obj EXCEPT !.session_token = _urlsafe_base_64(issued + 1)]
       IN /\ req' = [req EXCEPT ![p].pc = "token", ![p].obj = obj]
          /\ users' = AssignEffect(users, req[p].user, obj)
    /\ issued' = issued + 1
    /\ last' = Resp("step", 0)
    /\ UNCHANGED <<registered, locations, facilities, reservations, now, renewed,
                   retired, loggedOut>>

\* self.session_expiration = datetime.datetime.now() + timedelta(days=1)
RenewExpiration(p) ==
    /\ req[p].pc = "token"
    /\ LET obj == [req[p].obj EXCEPT !.session_expiration = now + SessionTTL]
       IN /\ req' = [req EXCEPT ![p].pc = "expiration", ![p].obj = obj]
          /\ users' = AssignEffect(users, req[p].user, obj)
    /\ last' = Resp("step", 0)
    /\ UNCHANGED <<registered, locations, facilities, reservations, now, issued,
                   renewed, retired, loggedOut>>

\* self.update_token = self._urlsafe_base_64()
RenewUpdateToken(p) ==
    /\ req[p].pc = "expiration"
    /\ issued + 1 <= MaxTokens
    /\ LET obj == [req[p].obj EXCEPT !.update_token = _urlsafe_base_64(issued + 1)]
       IN /\ req' = [req EXCEPT ![p].pc = "renewed", ![p].obj = obj]
          /\ users' = AssignEffect(users, req[p].user, obj)
    /\ issued' = issued + 1
    /\ last' = Resp("step", 0)
    /\ UNCHANGED <<registered, locations, facilities, reservations, now, renewed,
                   retired, loggedOut>>

\* db.session.commit(): one UPDATE of the three columns of that row
RenewCommit(p) ==
    /\ req[p].pc = "renewed"
    /\ LET id == req[p].user
           obj == req[p].obj
       IN /\ users' = Commit([users EXCEPT ![id] =
                                 [@ EXCEPT !.session_token = obj.session_token,
                                           !.session_expiration = obj.session_expiration,
                                           !.update_token = obj.update_token]])
          /\ retired' = retired \cup {<<id, users[id].session_token>>}
          /\ last' = [op |-> "session", status |-> 200, user |-> id,
                      reuse |-> req[p].token \in renewed]
    /\ renewed' = renewed \cup {req[p].token}
    /\ req' = [req EXCEPT ![p] = IdleReq]
    /\ UNCHANGED <<registered, locations, facilities, reservations, now, issued,
                   loggedOut>>

\* the requests that renew, one at a time; every other request of the
\* specification runs between its statements
Renewers == {1}

NextRenew ==
    \/ Tick
    \/ \E name \in Names, netid \in NetIds, email \in Emails, password \in {"pw1"} :
          register_account(name, netid, email, password)
    \/ \E p \in Renewers, h \in HeaderValues : RenewLookup(p, h)
    \/ \E p \in Renewers : RenewSessionToken(p)
    \/ \E p \in Renewers : RenewExpiration(p)
    \/ \E p \in Renewers : RenewUpdateToken(p)
    \/ \E p \in Renewers : RenewCommit(p)
    \/ \E h \in HeaderValues : logout(h)
    \/ \E id \in 1..MaxUserId, t \in TokenStrings \cup {EmptyStr} : verify_call(id, t)

SpecRenew == Init /\ [][NextRenew]_vars

\* ------------------------------------------- users_dao.renew_session itself
\* users_dao.renew_session(update_token), called with any string, the empty
\* one included: lookup by update token, Users.renew_session, commit
renew_session(update_token) ==
    LET optional_user == get_user_by_update_token(update_token)
    IN IF optional_user = 0
       THEN /\ last' = [op |-> "renew_session", success |-> FALSE, user |-> 0,
                        token |-> update_token]
            /\ UNCHANGED <<registered, locations, users, facilities, reservations, req,
                           now, issued, renewed, retired, loggedOut>>
       ELSE /\ issued + 2 <= MaxTokens
            /\ users' = Commit([users EXCEPT ![optional_user] =
                                   renew_session_fields(@, issued, now)])
            /\ issued' = issued + 2
            /\ renewed' = renewed \cup {update_token}
            /\ retired' = retired
                            \cup {<<optional_user, users[optional_user].session_token>>}
            /\ loggedOut' = {p \in loggedOut : p[1] # optional_user}
            /\ last' = [op |-> "renew_session", success |-> TRUE,
                        user |-> optional_user, token |-> update_token]
            /\ UNCHANGED <<registered, locations, facilities, reservations, req, now>>

NextDao ==
    \/ Tick
    \/ \E name \in Names, netid \in NetIds, email \in Emails, password \in {"pw1"} :
          register_account(name, netid, email, password)
    \/ \E email \in Field(Emails), password \in Field(Passwords) : login(email, password)
    \/ \E h \in HeaderValues : logout(h)
    \/ \E update_token \in TokenStrings \cup {EmptyStr} : renew_session(update_token)

SpecDao == Init /\ [][NextDao]_vars

\* =================================================================== claims

C3_UpdateTokenSingleUse ==
    (last.op = "session" /\ last.reuse) => (last.status = 400 /\ last.user = 0)

\* C3 witness: a renew-session request presented an update token that an
\* earlier renewal had consumed, and was refused.
C3_Witness == last.op = "session" /\ last.reuse /\ last.status = 400 /\ renewed # {}

\* C4: verify_session_token(user, token) is true exactly when token is the
\* user's stored session_token and the clock is strictly before
\* session_expiration.
C4_VerifyIff ==
    last.op = "verify"
    => (last.result <=> (/\ last.token = users[last.user].session_token
                         /\ now < users[last.user].session_expiration))

\* C4 witness: the exact stored token was verified at the instant of
\* session_expiration, and the answer was false.
C4_Witness ==
    /\ last.op = "verify"
    /\ last.token = users[last.user].session_token
    /\ last.token # EmptyStr
    /\ now = users[last.user].session_expiration
    /\ ~last.result

\* C5: after a logout request of an authenticated user, that user's
\* session_token and update_token are the empty sentinel and
\* session_expiration is the logout time; the pre-logout token and the empty
\* sentinel fail verification from then on.
C5_LogoutClears ==
    /\ (last.op = "logout" /\ last.user # 0)
       => (/\ users[last.user].session_token = EmptyStr
           /\ users[last.user].update_token = EmptyStr
           /\ users[last.user].session_expiration = now)
    /\ \A p \in loggedOut :
          /\ ~verify_session_token(users[p[1]], p[2], now)
          /\ ~verify_session_token(users[p[1]], EmptyStr, now)

\* C6: for every user at most one token string passes verification, and a
\* session token that a renewal replaced is accepted neither by
\* verify_session_token nor by the session-token lookup.
C6_OneLiveToken ==
    /\ \A i \in Ids :
          Cardinality({t \in TokenStrings \cup {EmptyStr} :
                          verify_session_token(users[i], t, now)}) <= 1
    /\ \A p \in retired :
          /\ ~verify_session_token(users[p[1]], p[2], now)
          /\ get_user_by_session_token(p[2]) = 0

\* C6 witness: a user whose session was renewed holds a live new token while
\* the replaced one is on record.
C6_Witness ==
    \E p \in retired :
        /\ p[2] # users[p[1]].session_token
        /\ verify_session_token(users[p[1]], users[p[1]].session_token, now)

\* C7: session tokens are pairwise distinct across the stored users, and so
\* are update tokens, also once users have logged out.
C7_TokensUnique ==
    \A i, j \in Ids :
        i # j => /\ users[i].session_token # users[j].session_token
                 /\ users[i].update_token # users[j].update_token

\* C7 witness: one stored user is logged out (empty tokens) and the logout of
\* another authenticated user has just been handled.
C7_Witness ==
    /\ last.op = "logout"
    /\ last.user # 0
    /\ \E i \in Ids : i # last.user /\ users[i].session_token = EmptyStr

\* C8: a create or cancel request whose bearer token is not the live session
\* token of the reservation's user is answered Unauthorized and stores or
\* deletes nothing; only an authorized request changes the reservations.
C8_OnlyOwnerProceeds ==
    /\ (last.op = "add_reservation" /\ ~last.authorized)
       => (last.kind = "Authentication error" /\ ~last.stored)
    /\ (last.op = "cancel_reservation" /\ last.found /\ ~last.authorized)
       => (last.kind = "Authentication error" /\ ~last.stored)

C10_ValidCreateSucceeds ==
    (/\ last.op = "add_reservation"
     /\ last.authorized
     /\ last.facility
     /\ last.valid
     /\ last.disjoint)
    => (last.status = 200 /\ last.stored)

C12_UnknownFacilityNotFound ==
    (last.op = "add_reservation" /\ ~last.facility)
    => (last.kind = "Facility not found" /\ last.status = 404 /\ ~last.stored)

\* C13: a stored user's session_token, session_expiration and update_token
\* are only ever replaced together, in one step: every step that changes one
\* of the three in storage changes both tokens and stores the expiration that
\* the same request computed (a renewal's object, or logout's now), so no
\* request reads a row that is part old and part new.
C13_RenewalAtomic ==
    [][\A i \in DOMAIN users \cap DOMAIN users' :
          (\/ users'[i].session_token # users[i].session_token
           \/ users'[i].session_expiration # users[i].session_expiration
           \/ users'[i].update_token # users[i].update_token)
          => (/\ users'[i].session_token # users[i].session_token
              /\ users'[i].update_token # users[i].update_token
              /\ users'[i].session_expiration \in
                    {now} \cup {req[p].obj.session_expiration :
                                  p \in {q \in Renewers : /\ req[q].pc = "renewed"
                                                       /\ req[q].user = i
                                                       /\ req'[q].pc = "idle"}})]_vars

\* C13 witness: while a renewal has assigned the new session token and the
\* new expiration to its object but not yet committed, another request has
\* verified a token against the stored row of the same user.
C13_Witness ==
    \E p \in Renewers :
        /\ req[p].pc = "expiration"
        /\ last.op = "verify"
        /\ last.user = req[p].user
        /\ last.result
        /\ users[req[p].user].session_token # req[p].obj.session_token

\* C14: a register request whose email is already held by a stored user is
\* answered with the failure status 400, creates no user and leaves every
\* stored user, the holder of the email included, exactly as it was.
C14_RegisterHeldEmail ==
    [][(/\ last'.op = "register"
        /\ get_user_by_email(last'.email) # 0)
       => (last'.status = 400 /\ last'.user = 0 /\ users' = users)]_vars

\* C14 witness: a register request for the email of a stored user has just
\* been refused, and that user had renewed its session before (its row is no
\* longer the one registration wrote).
C14_Witness ==
    /\ last.op = "register"
    /\ last.status = 400
    /\ last.email \in Emails
    /\ get_user_by_email(last.email) # 0
    /\ \E p \in retired : p[1] = get_user_by_email(last.email)

C17_MissingReservationNotFound ==
    (last.op = "cancel_reservation" /\ ~last.found)
    => (last.kind = "reservastion not found" /\ last.status = 404 /\ ~last.stored)

C19_LocationFields ==
    last.op = "create_location"
    => /\ last.missing => (last.status = 400 /\ ~last.stored)
       /\ last.stored => last.exact

\* C20: for a user who has logged out, whatever login, renewal, logout and
\* register requests follow, both stored tokens stay the empty string and no
\* non-empty token string passes session verification for that user.
C20_LoggedOutStaysOut ==
    \A p \in loggedOut :
        /\ users[p[1]].session_token = EmptyStr
        /\ users[p[1]].update_token = EmptyStr
        /\ \A t \in TokenStrings : ~verify_session_token(users[p[1]], t, now)

\* C20 witness: a user who has logged out has since logged in again with
\* their credentials and was handed the cleared tokens.
C20_Witness ==
    \E p \in loggedOut :
        /\ last.op = "login"
        /\ last.status = 200
        /\ last.user = p[1]
        /\ last.session_token = EmptyStr
        /\ last.update_token = EmptyStr

\* C21: a login request, whatever its outcome and whatever registrations,
\* renewals and logouts came before, leaves every stored user as it was; a successful one returns the stored session and update tokens of
\* the user, and when that user's session has expired the returned session
\* token does not pass verify_session_token.
C21_LoginChangesNothing ==
    [][(last'.op = "login")
       => /\ users' = users
          /\ issued' = issued
          /\ (last'.status = 200)
             => /\ last'.user \in Ids
                /\ last'.session_token = users[last'.user].session_token
                /\ last'.update_token = users[last'.user].update_token
                /\ (now >= users[last'.user].session_expiration)
                   => ~verify_session_token(users'[last'.user],
                                            last'.session_token, now')]_vars

\* C21 witness: a user whose session has expired, and who never logged out,
\* has logged in and was handed the expired session token.
C21_Witness ==
    /\ last.op = "login"
    /\ last.status = 200
    /\ last.session_token # EmptyStr
    /\ last.session_token = users[last.user].session_token
    /\ now >= users[last.user].session_expiration
    /\ ~verify_session_token(users[last.user], last.session_token, now)

\* C22: renew_session succeeds exactly when some stored user's update_token
\* equals the input, expired session or not and empty input included; it then
\* returns that user, replaces both of that user's tokens, leaves the user's
\* other columns and every other user as they were, and the new session
\* token passes verify_session_token right after; with no match it fails and
\* changes nothing.
C22_RenewByUpdateTokenOnly ==
    [][(last'.op = "renew_session")
       => LET holders == {i \in DOMAIN users : users[i].update_token = last'.token}
          IN IF holders = {}
             THEN ~last'.success /\ users' = users
             ELSE /\ last'.success
                  /\ last'.user \in holders
                  /\ DOMAIN users' = DOMAIN users
                  /\ \A j \in DOMAIN users \ {last'.user} : users'[j] = users[j]
                  /\ users'[last'.user] =
                        [users[last'.user] EXCEPT
                            !.session_token = users'[last'.user].session_token,
                            !.session_expiration = users'[last'.user].session_expiration,
                            !.update_token = users'[last'.user].update_token]
                  /\ users'[last'.user].session_token # users[last'.user].session_token
                  /\ users'[last'.user].update_token # users[last'.user].update_token
                  /\ users'[last'.user].update_token # last'.token
                  /\ verify_session_token(users'[last'.user],
                                          users'[last'.user].session_token, now')]_vars

\* C22 witness: renew_session("") has matched a logged-out user, whose
\* session had expired at the logout, while another user is stored, and the
\* renewed user holds a live session token again.
C22_Witness ==
    /\ last.op = "renew_session"
    /\ last.success
    /\ last.token = EmptyStr
    /\ \E j \in Ids : j # last.user
    /\ users[last.user].session_token # EmptyStr
    /\ verify_session_token(users[last.user], users[last.user].session_token, now)

====
